---- MODULE Spec2Model ----
(***************************************************************************)
(* Core-group pool and thread affinity binding of                          *)
(* storage-proofs-porep/src/stacked/vanilla/cores.rs.                      *)
(*                                                                         *)
(* The machine has core_count cores of PUsPerCore processing units each;   *)
(* a CPU set (hwloc Bitmap) is a set of processing-unit numbers.  Every    *)
(* thread is a little state machine: pc[t] says where it is inside         *)
(* checkout_core_group, bind_core or Cleanup::drop, "idle" means it runs   *)
(* caller code, "unwind" that it is unwinding after a panic.               *)
(***************************************************************************)
EXTENDS Integers, Sequences, FiniteSets

\* ---------------------------------------------------------------- bounds
NumThreads == 2
MaxCores == 2
MaxUnit == 2
MaxGuards == 2
PUsPerCore == 2
MaxPartCores == 9
MaxPartUnit == 4
MaxShareGuards == 1

Threads == 1..NumThreads

VARIABLES
    core_count,      \* all_cores.len(): number of Core objects of the topology
    cores_per_unit,  \* SETTINGS.multicore_sdr_producers + 1
    query_ok,        \* whether objects_with_type(&ObjectType::Core) answers Ok
    TOPOLOGY,        \* the Mutex<Topology>: [locked, poisoned]
    lazy,            \* the Once behind CORE_GROUPS: uninit, running, ready, poisoned
    CORE_GROUPS,     \* Vec<Mutex<CoreGroup>>: sequence of [data, locked, poisoned]
    building,        \* core_groups' local Vec of groups collected so far
    pc,              \* per thread: position
    arg,             \* per thread: core_index.0 of the running bind_core
    scan,            \* per thread: 1-based position of the checkout loop
    handles,         \* per thread: how many MutexGuards it owns of each group
    guards,          \* per thread: the Cleanup values it owns, oldest first
    dropping,        \* per thread: the prior state taken by the running drop
    cpubind,         \* per thread: the platform's CPU binding of the thread
    membind,         \* per thread: the platform's memory binding of the thread
    panicking,       \* per thread: std::thread::panicking()
    aborted,         \* the process aborted (panic while panicking)
    result,          \* per thread: outcome of its last finished operation
    calls,           \* per thread: platform calls made by its last operation
    all_held,        \* per thread: every group was held ever since its scan began
    run              \* per thread: history flags of the guards it owns

vars == << core_count, cores_per_unit, query_ok, TOPOLOGY, lazy, CORE_GROUPS,
           building, pc, arg, scan, handles, guards, dropping, cpubind, membind,
           panicking, aborted, result, calls, all_held, run >>

\* ------------------------------------------------------- platform (hwloc)
MEMBIND_DEFAULT == "MEMBIND_DEFAULT"
MEMBIND_BIND == "MEMBIND_BIND"

\* every processing unit of a machine with n cores
AllPUs(n) == 0..(n * PUsPerCore - 1)

\* core.allowed_cpuset(): the processing units of core i
allowed_cpuset(i) == { i * PUsPerCore + k : k \in 0..(PUsPerCore - 1) }

\* Bitmap::singlify: keep only the lowest set bit
singlify(S) == IF S = {} THEN {} ELSE { CHOOSE x \in S : \A y \in S : x <= y }

\* Option<Bitmap>
None == [some |-> FALSE, set |-> {}]
Some(S) == [some |-> TRUE, set |-> S]

\* the memory binding a successful set_membind(set, policy, MEMBIND_THREAD)
\* leaves: MEMBIND_DEFAULT resets the thread to the system default policy,
\* whatever set is passed; MEMBIND_BIND binds allocation to the set
MemDefault == [policy |-> MEMBIND_DEFAULT, set |-> {}]
set_membind(set, policy) ==
    IF policy = MEMBIND_DEFAULT THEN MemDefault
    ELSE [policy |-> policy, set |-> set]

\* one platform call in the log of an operation
Call(name, set, ok) == [call |-> name, set |-> set, ok |-> ok]

\* ------------------------------------------------------------ std::sync
\* Mutex::new(data)
MutexNew(data) == [data |-> data, locked |-> FALSE, poisoned |-> FALSE]

\* a try_lock of a mutex that knows no poisoning
try_lock_unpoisoned(m) == IF m.locked THEN "WouldBlock" ELSE "Ok"

\* a try_lock that does not look at the lock
try_lock_blind(m) == IF m.poisoned THEN "Poisoned" ELSE "Ok"

\* Mutex::try_lock: Err(WouldBlock) when locked, Err(Poisoned) when the
\* mutex is free but poisoned, Ok(guard) otherwise
try_lock(m) ==
    IF m.locked THEN "WouldBlock"
    ELSE IF m.poisoned THEN "Poisoned"
    ELSE "Ok"

\* ------------------------------------------------------- core_groups
\* a group count that rounds up
group_count_ceil(cores, unit) == (cores + unit - 1) \div unit

\* let group_count = core_count / cores_per_unit;
group_count_of(cores, unit) == cores \div unit

\* the indexes in ascending order, as without .rev()
fwd_index(group_count, done) == done

\* (0..group_count).rev(): the index produced after `done` earlier ones
rev_index(group_count, done) == group_count - 1 - done

\* the inner map: the indexes i * group_size + j of group i, j ascending
group_members(i, group_size) == [ j \in 1..group_size |-> i * group_size + (j - 1) ]

\* assert!(core_index < core_count) over one group
assert_in_range(grp, cores) == \A j \in 1..Len(grp) : grp[j] < cores

\* ------------------------------------------------------------- results
\* what a thread remembers of its last finished operation: op and ret name
\* the operation and what it returned, grp the group of a checkout, state
\* the prior_state of the guard a bind returned or a drop consumed; pre is
\* the thread's affinity when the guard a drop consumed was asked for; flag,
\* clean, lifo and ok are explained where they are set
NoAffinity == [cpu |-> {}, mem |-> MemDefault]
NoResult == [op |-> "none", ret |-> "none", grp |-> 0, flag |-> FALSE,
             pre |-> NoAffinity, state |-> None,
             clean |-> FALSE, lifo |-> FALSE, ok |-> FALSE]

Affinity(t) == [cpu |-> cpubind[t], mem |-> membind[t]]

Rest(t) == IF panicking[t] THEN "unwind" ELSE "idle"

ZeroHandles(n) == [ g \in 1..n |-> 0 ]

\* struct Cleanup { tid, prior_state }; pre, which the program does not
\* have, is the thread's affinity when bind_core was called
Cleanup(t, prior, pre) == [tid |-> t, prior_state |-> prior, pre |-> pre]

\* what is known about the guards a thread owns, since it last owned none:
\* clean says its last bind or release operation was the bind_core that
\* made its newest guard; lifo says it released no guard out of order; ok
\* says the platform rejected none of its calls
FreshRun == [clean |-> FALSE, lifo |-> TRUE, ok |-> TRUE]

\* the guard a drop is working on, with the run flags as they apply to it
Taken(g, flags) ==
    [tid |-> g.tid, prior_state |-> g.prior_state, pre |-> g.pre,
     clean |-> flags.clean, lifo |-> flags.lifo, ok |-> flags.ok]

NoGuard == Taken(Cleanup(0, None, NoAffinity), [clean |-> FALSE, lifo |-> FALSE, ok |-> FALSE])

\* ----------------------------------------------------------------- Init
InitialCpuBinds(n) == { AllPUs(n) } \cup (IF n > 0 THEN { {n * PUsPerCore - 1} } ELSE {})
InitialMemBinds(n) == { MemDefault } \cup
    (IF n > 0 THEN { [policy |-> MEMBIND_BIND, set |-> {0}] } ELSE {})

DefaultCpuBinds(n) == { AllPUs(n) }
DefaultMemBinds(n) == { MemDefault }

\* the threads of `acting` start with any of the given bindings, the others
\* unbound
InitWith(cores, units, acting) ==
    /\ core_count \in cores
    /\ cores_per_unit \in units
    /\ query_ok \in BOOLEAN
    /\ TOPOLOGY = [locked |-> FALSE, poisoned |-> FALSE]
    /\ lazy = "uninit"
    /\ CORE_GROUPS = << >>
    /\ building = << >>
    /\ pc = [t \in Threads |-> "idle"]
    /\ arg = [t \in Threads |-> 0]
    /\ scan = [t \in Threads |-> 0]
    /\ handles = [t \in Threads |-> << >>]
    /\ guards = [t \in Threads |-> << >>]
    /\ dropping = [t \in Threads |-> NoGuard]
    /\ cpubind \in [Threads -> InitialCpuBinds(core_count)]
    /\ membind \in [Threads -> InitialMemBinds(core_count)]
    /\ \A t \in Threads \ acting :
          /\ cpubind[t] \in DefaultCpuBinds(core_count)
          /\ membind[t] \in DefaultMemBinds(core_count)
    /\ panicking = [t \in Threads |-> FALSE]
    /\ aborted = FALSE
    /\ result = [t \in Threads |-> NoResult]
    /\ calls = [t \in Threads |-> << >>]
    /\ all_held = [t \in Threads |-> FALSE]
    /\ run = [t \in Threads |-> FreshRun]

Init == InitWith(0..MaxCores, 1..MaxUnit, Threads)

\* a thread panics: it starts unwinding; a panic while panicking aborts
PanicOf(t) ==
    /\ panicking' = [panicking EXCEPT ![t] = TRUE]
    /\ aborted' = (aborted \/ panicking[t])
    /\ pc' = [pc EXCEPT ![t] = "unwind"]

\* ------------------------------------------------- checkout_core_group
\* the call: the first thing it does is dereference CORE_GROUPS
CheckoutBegin(t) ==
    /\ ~aborted
    /\ pc[t] = "idle"
    /\ pc' = [pc EXCEPT ![t] = "co_deref"]
    /\ result' = [result EXCEPT ![t] = NoResult]
    /\ calls' = [calls EXCEPT ![t] = << >>]
    /\ UNCHANGED << run, core_count, cores_per_unit, query_ok, TOPOLOGY, lazy,
                    CORE_GROUPS, building, arg, scan, handles, guards, dropping,
                    cpubind, membind, panicking, aborted, all_held >>

AllHeld == \A g \in 1..Len(CORE_GROUPS) : CORE_GROUPS[g].locked

\* *CORE_GROUPS of lazy_static: run the initializer once, wait while
\* another thread runs it, panic when an earlier run panicked
Deref(t) ==
    /\ ~aborted
    /\ pc[t] = "co_deref"
    /\ lazy # "running"
    /\ CASE lazy = "uninit" ->
              /\ lazy' = "running"
              /\ pc' = [pc EXCEPT ![t] = "cg_lock"]
              /\ UNCHANGED << scan, all_held, panicking, aborted >>
         [] lazy = "ready" ->
              /\ pc' = [pc EXCEPT ![t] = "co_scan"]
              /\ scan' = [scan EXCEPT ![t] = 1]
              /\ all_held' = [all_held EXCEPT ![t] = AllHeld]
              /\ UNCHANGED << lazy, panicking, aborted >>
         [] lazy = "poisoned" ->
              /\ PanicOf(t)
              /\ UNCHANGED << lazy, scan, all_held >>
    /\ UNCHANGED << run, core_count, cores_per_unit, query_ok, TOPOLOGY, CORE_GROUPS,
                    building, arg, handles, guards, dropping, cpubind, membind,
                    result, calls >>

\* core_groups: TOPOLOGY.lock().expect("poisoned lock")
CgLock(t) ==
    /\ ~aborted
    /\ pc[t] = "cg_lock"
    /\ ~TOPOLOGY.locked
    /\ IF TOPOLOGY.poisoned
       THEN /\ PanicOf(t)
            /\ lazy' = "poisoned"
            /\ UNCHANGED TOPOLOGY
       ELSE /\ TOPOLOGY' = [TOPOLOGY EXCEPT !.locked = TRUE]
            /\ pc' = [pc EXCEPT ![t] = "cg_query"]
            /\ UNCHANGED << lazy, panicking, aborted >>
    /\ UNCHANGED << run, core_count, cores_per_unit, query_ok, CORE_GROUPS, building,
                    arg, scan, handles, guards, dropping, cpubind, membind,
                    result, calls, all_held >>

\* a panic inside core_groups: the topology guard is dropped while
\* panicking, which poisons TOPOLOGY, and the Once is poisoned too
CgPanic(t) ==
    /\ PanicOf(t)
    /\ TOPOLOGY' = [locked |-> FALSE, poisoned |-> TRUE]
    /\ lazy' = "poisoned"

\* topo.objects_with_type(&ObjectType::Core).expect("objects_with_type failed")
CgQuery(t) ==
    /\ ~aborted
    /\ pc[t] = "cg_query"
    /\ IF query_ok
       THEN /\ building' = << >>
            /\ pc' = [pc EXCEPT ![t] = "cg_build"]
            /\ UNCHANGED << TOPOLOGY, lazy, panicking, aborted >>
       ELSE /\ CgPanic(t)
            /\ UNCHANGED building
    /\ UNCHANGED << run, core_count, cores_per_unit, query_ok, CORE_GROUPS,
                    arg, scan, handles, guards, dropping, cpubind, membind,
                    result, calls, all_held >>

\* one item of the outer map over (0..group_count).rev()
CgStep(t) ==
    /\ ~aborted
    /\ pc[t] = "cg_build"
    /\ LET group_count == group_count_of(core_count, cores_per_unit)
           group_size == cores_per_unit
       IN /\ Len(building) < group_count
          /\ LET i == rev_index(group_count, Len(building))
                 grp == group_members(i, group_size)
             IN IF assert_in_range(grp, core_count)
                THEN /\ building' = Append(building, grp)
                     /\ UNCHANGED << TOPOLOGY, lazy, pc, panicking, aborted >>
                ELSE /\ CgPanic(t)
                     /\ UNCHANGED building
    /\ UNCHANGED << run, core_count, cores_per_unit, query_ok, CORE_GROUPS,
                    arg, scan, handles, guards, dropping, cpubind, membind,
                    result, calls, all_held >>

\* the groups are wrapped in mutexes and returned; the topology guard is
\* dropped, CORE_GROUPS is initialized and the checkout loop starts
CgDone(t) ==
    /\ ~aborted
    /\ pc[t] = "cg_build"
    /\ Len(building) = group_count_of(core_count, cores_per_unit)
    /\ CORE_GROUPS' = [ k \in 1..Len(building) |-> MutexNew(building[k]) ]
    /\ handles' = [ u \in Threads |-> ZeroHandles(Len(building)) ]
    /\ TOPOLOGY' = [TOPOLOGY EXCEPT !.locked = FALSE]
    /\ lazy' = "ready"
    /\ pc' = [pc EXCEPT ![t] = "co_scan"]
    /\ scan' = [scan EXCEPT ![t] = 1]
    /\ all_held' = [all_held EXCEPT ![t] = (Len(building) = 0)]
    /\ UNCHANGED << run, core_count, cores_per_unit, query_ok, building, arg,
                    guards, dropping, cpubind, membind, panicking, aborted,
                    result, calls >>

\* an iteration that takes the group with lock(), waiting for its holder
CoProbe_lock(t) ==
    /\ ~aborted
    /\ pc[t] = "co_scan"
    /\ scan[t] <= Len(CORE_GROUPS)
    /\ LET g == scan[t]
       IN /\ ~CORE_GROUPS[g].locked
          /\ IF ~CORE_GROUPS[g].poisoned
             THEN /\ CORE_GROUPS' = [CORE_GROUPS EXCEPT ![g].locked = TRUE]
                  /\ handles' = [handles EXCEPT ![t][g] = @ + 1]
                  /\ result' = [result EXCEPT ![t] =
                        [NoResult EXCEPT !.op = "checkout", !.ret = "Some",
                                         !.grp = g, !.flag = all_held[t]]]
                  /\ pc' = [pc EXCEPT ![t] = "idle"]
                  /\ scan' = [scan EXCEPT ![t] = 0]
                  /\ all_held' = [all_held EXCEPT ![t] = FALSE]
             ELSE /\ scan' = [scan EXCEPT ![t] = g + 1]
                  /\ UNCHANGED << CORE_GROUPS, handles, result, pc, all_held >>
    /\ UNCHANGED << run, core_count, cores_per_unit, query_ok, TOPOLOGY, lazy,
                    building, arg, guards, dropping, cpubind, membind,
                    panicking, aborted, calls >>

\* one iteration of the loop: group.try_lock()
CoProbe(t) ==
    /\ ~aborted
    /\ pc[t] = "co_scan"
    /\ scan[t] <= Len(CORE_GROUPS)
    /\ LET g == scan[t]
       IN IF try_lock(CORE_GROUPS[g]) = "Ok"
          THEN /\ CORE_GROUPS' = [CORE_GROUPS EXCEPT ![g].locked = TRUE]
               /\ handles' = [handles EXCEPT ![t][g] = @ + 1]
               /\ result' = [result EXCEPT ![t] =
                     [NoResult EXCEPT !.op = "checkout", !.ret = "Some",
                                      !.grp = g, !.flag = all_held[t]]]
               /\ pc' = [pc EXCEPT ![t] = "idle"]
               /\ scan' = [scan EXCEPT ![t] = 0]
               /\ all_held' = [all_held EXCEPT ![t] = FALSE]
          ELSE /\ scan' = [scan EXCEPT ![t] = g + 1]
               /\ UNCHANGED << CORE_GROUPS, handles, result, pc, all_held >>
    /\ UNCHANGED << run, core_count, cores_per_unit, query_ok, TOPOLOGY, lazy,
                    building, arg, guards, dropping, cpubind, membind,
                    panicking, aborted, calls >>

\* the loop ran out of groups: None
CoNone(t) ==
    /\ ~aborted
    /\ pc[t] = "co_scan"
    /\ scan[t] > Len(CORE_GROUPS)
    /\ result' = [result EXCEPT ![t] =
          [NoResult EXCEPT !.op = "checkout", !.ret = "None",
                           !.flag = all_held[t]]]
    /\ pc' = [pc EXCEPT ![t] = "idle"]
    /\ scan' = [scan EXCEPT ![t] = 0]
    /\ all_held' = [all_held EXCEPT ![t] = FALSE]
    /\ UNCHANGED << run, core_count, cores_per_unit, query_ok, TOPOLOGY, lazy,
                    CORE_GROUPS, building, arg, handles, guards, dropping,
                    cpubind, membind, panicking, aborted, calls >>

\* a release of the group that also takes the thread's binding back
ReleaseHandle_unbind(t, g) ==
    /\ ~aborted
    /\ pc[t] \in {"idle", "unwind"}
    /\ g \in 1..Len(handles[t])
    /\ handles[t][g] > 0
    /\ handles' = [handles EXCEPT ![t][g] = @ - 1]
    /\ CORE_GROUPS' = [CORE_GROUPS EXCEPT ![g].locked = FALSE,
                                          ![g].poisoned = @ \/ panicking[t]]
    /\ cpubind' = [cpubind EXCEPT ![t] = AllPUs(core_count)]
    /\ membind' = [membind EXCEPT ![t] = MemDefault]
    /\ all_held' = [ u \in Threads |-> FALSE ]
    /\ result' = [result EXCEPT ![t] =
          [NoResult EXCEPT !.op = "release", !.ret = "unit", !.grp = g]]
    /\ calls' = [calls EXCEPT ![t] = << >>]
    /\ UNCHANGED << run, core_count, cores_per_unit, query_ok, TOPOLOGY, lazy,
                    building, pc, arg, scan, guards, dropping, panicking,
                    aborted >>

\* a release that puts the group back at the end of the pool
ReleaseHandle_requeue(t, g) ==
    /\ ~aborted
    /\ pc[t] \in {"idle", "unwind"}
    /\ g \in 1..Len(handles[t])
    /\ handles[t][g] > 0
    /\ handles' = [handles EXCEPT ![t][g] = @ - 1]
    /\ CORE_GROUPS' = SubSeq(CORE_GROUPS, 1, g - 1)
                        \o SubSeq(CORE_GROUPS, g + 1, Len(CORE_GROUPS))
                        \o << [CORE_GROUPS[g] EXCEPT !.locked = FALSE,
                                                      !.poisoned = @ \/ panicking[t]] >>
    /\ all_held' = [ u \in Threads |-> FALSE ]
    /\ result' = [result EXCEPT ![t] =
          [NoResult EXCEPT !.op = "release", !.ret = "unit", !.grp = g]]
    /\ calls' = [calls EXCEPT ![t] = << >>]
    /\ UNCHANGED << run, core_count, cores_per_unit, query_ok, TOPOLOGY, lazy,
                    building, pc, arg, scan, guards, dropping, cpubind,
                    membind, panicking, aborted >>

\* the MutexGuard of group g goes out of scope (also while unwinding,
\* which poisons the mutex)
ReleaseHandle(t, g) ==
    /\ ~aborted
    /\ pc[t] \in {"idle", "unwind"}
    /\ g \in 1..Len(handles[t])
    /\ handles[t][g] > 0
    /\ handles' = [handles EXCEPT ![t][g] = @ - 1]
    /\ CORE_GROUPS' = [CORE_GROUPS EXCEPT ![g].locked = FALSE,
                                          ![g].poisoned = @ \/ panicking[t]]
    /\ all_held' = [ u \in Threads |-> FALSE ]
    /\ result' = [result EXCEPT ![t] =
          [NoResult EXCEPT !.op = "release", !.ret = "unit", !.grp = g]]
    /\ calls' = [calls EXCEPT ![t] = << >>]
    /\ UNCHANGED << run, core_count, cores_per_unit, query_ok, TOPOLOGY, lazy,
                    building, pc, arg, scan, guards, dropping, cpubind,
                    membind, panicking, aborted >>

\* caller code panics while it owns a handle or a guard
Panic(t) ==
    /\ ~aborted
    /\ pc[t] = "idle"
    /\ \/ guards[t] # << >>
       \/ \E g \in 1..Len(handles[t]) : handles[t][g] > 0
    /\ PanicOf(t)
    /\ result' = [result EXCEPT ![t] = NoResult]
    /\ calls' = [calls EXCEPT ![t] = << >>]
    /\ UNCHANGED << run, core_count, cores_per_unit, query_ok, TOPOLOGY, lazy,
                    CORE_GROUPS, building, arg, scan, handles, guards, dropping,
                    cpubind, membind, all_held >>

\* ------------------------------------------------------------ bind_core
\* an index check that is off by one
get_core_by_index_incl(idx) ==
    IF ~query_ok THEN "Err: failed to get core by index"
    ELSE IF idx <= core_count THEN "Ok"
    ELSE "Err: idx out of range"

\* get_core_by_index
get_core_by_index(idx) ==
    IF ~query_ok THEN "Err: failed to get core by index"
    ELSE IF idx < core_count THEN "Ok"
    ELSE "Err: idx out of range"

\* a bind_core that gives up when the CPU binding is rejected
bind_outcome_strict(cpu_ok) == IF cpu_ok THEN "Ok" ELSE "Err: failed to bind CPU"

\* what bind_core goes on to return once the CPU binding call has answered:
\* a rejection is only logged (warn!), the function still returns Ok
bind_outcome(cpu_ok) == "Ok"

\* a capture that hands every nested guard the state of the outermost one
get_cpubind_outermost(t, snap_ok) ==
    IF ~snap_ok THEN None
    ELSE IF guards[t] # << >> THEN guards[t][1].prior_state
    ELSE Some(cpubind[t])

\* locked_topo.get_cpubind_for_thread(tid, CPUBIND_THREAD): the CPU binding
\* the thread has now, or nothing when the platform does not answer
get_cpubind_for_thread(t, snap_ok) ==
    IF snap_ok THEN Some(cpubind[t]) ELSE None

BindBegin(t, i) ==
    /\ ~aborted
    /\ pc[t] = "idle"
    /\ Len(guards[t]) < MaxGuards
    /\ pc' = [pc EXCEPT ![t] = "bind_lock"]
    /\ arg' = [arg EXCEPT ![t] = i]
    /\ result' = [result EXCEPT ![t] = NoResult]
    /\ calls' = [calls EXCEPT ![t] = << >>]
    /\ UNCHANGED << run, core_count, cores_per_unit, query_ok, TOPOLOGY, lazy,
                    CORE_GROUPS, building, scan, handles, guards, dropping,
                    cpubind, membind, panicking, aborted, all_held >>

\* a lock() that does not wait for the holder of the lock
TopoLock_barge(t, from, to) ==
    /\ ~aborted
    /\ pc[t] = from
    /\ IF TOPOLOGY.poisoned
       THEN /\ PanicOf(t)
            /\ result' = [result EXCEPT ![t] = [NoResult EXCEPT !.ret = "panic"]]
            /\ UNCHANGED TOPOLOGY
       ELSE /\ TOPOLOGY' = [TOPOLOGY EXCEPT !.locked = TRUE]
            /\ pc' = [pc EXCEPT ![t] = to]
            /\ UNCHANGED << panicking, aborted, result >>

\* a lock() that takes the value out of a poisoned lock and goes on
TopoLock_recover(t, from, to) ==
    /\ ~aborted
    /\ pc[t] = from
    /\ ~TOPOLOGY.locked
    /\ TOPOLOGY' = [TOPOLOGY EXCEPT !.locked = TRUE]
    /\ pc' = [pc EXCEPT ![t] = to]
    /\ UNCHANGED << panicking, aborted, result >>

\* child_topo.lock().expect("poisoned lock"), of bind_core and of drop
TopoLock(t, from, to) ==
    /\ ~aborted
    /\ pc[t] = from
    /\ ~TOPOLOGY.locked
    /\ IF TOPOLOGY.poisoned
       THEN /\ PanicOf(t)
            /\ result' = [result EXCEPT ![t] = [NoResult EXCEPT !.ret = "panic"]]
            /\ UNCHANGED TOPOLOGY
       ELSE /\ TOPOLOGY' = [TOPOLOGY EXCEPT !.locked = TRUE]
            /\ pc' = [pc EXCEPT ![t] = to]
            /\ UNCHANGED << panicking, aborted, result >>

BindLock(t) ==
    /\ TopoLock(t, "bind_lock", "bind_body")
    /\ dropping' = dropping
    /\ UNCHANGED << run, core_count, cores_per_unit, query_ok, lazy, CORE_GROUPS,
                    building, arg, scan, handles, guards, cpubind, membind,
                    calls, all_held >>

\* the body of bind_core under the topology lock; the lock guard is
\* dropped on every way out
BindBody(t) ==
    /\ ~aborted
    /\ pc[t] = "bind_body"
    /\ LET core == get_core_by_index(arg[t])
       IN IF core # "Ok"
          THEN /\ result' = [result EXCEPT ![t] =
                     [NoResult EXCEPT !.op = "bind", !.ret = core]]
               /\ UNCHANGED << guards, cpubind, membind, calls, run >>
          ELSE \E snap_ok, cpu_ok, mem_ok \in BOOLEAN :
               LET bind_to == singlify(allowed_cpuset(arg[t]))
                   before == get_cpubind_for_thread(t, snap_ok)
                   ret == bind_outcome(cpu_ok)
                   accepted == snap_ok /\ cpu_ok /\ mem_ok
               IN /\ cpubind' = [cpubind EXCEPT ![t] = IF cpu_ok THEN bind_to ELSE @]
                  /\ IF ret = "Ok"
                     THEN /\ membind' = [membind EXCEPT ![t] =
                                IF mem_ok THEN set_membind(bind_to, MEMBIND_BIND) ELSE @]
                          /\ calls' = [calls EXCEPT ![t] =
                                << Call("get_cpubind_for_thread", {}, snap_ok),
                                   Call("set_cpubind_for_thread", bind_to, cpu_ok),
                                   Call("set_membind", bind_to, mem_ok) >>]
                          /\ guards' = [guards EXCEPT ![t] =
                                Append(@, Cleanup(t, before, Affinity(t)))]
                          /\ run' = [run EXCEPT ![t] =
                                [clean |-> TRUE, lifo |-> @.lifo, ok |-> @.ok /\ accepted]]
                          /\ result' = [result EXCEPT ![t] =
                                [NoResult EXCEPT !.op = "bind", !.ret = "Ok",
                                                 !.state = before, !.ok = accepted]]
                     ELSE /\ mem_ok
                          /\ calls' = [calls EXCEPT ![t] =
                                << Call("get_cpubind_for_thread", {}, snap_ok),
                                   Call("set_cpubind_for_thread", bind_to, cpu_ok) >>]
                          /\ result' = [result EXCEPT ![t] =
                                [NoResult EXCEPT !.op = "bind", !.ret = ret]]
                          /\ UNCHANGED << membind, guards, run >>
    /\ TOPOLOGY' = [TOPOLOGY EXCEPT !.locked = FALSE]
    /\ pc' = [pc EXCEPT ![t] = "idle"]
    /\ arg' = [arg EXCEPT ![t] = 0]
    /\ UNCHANGED << core_count, cores_per_unit, query_ok, lazy, CORE_GROUPS,
                    building, scan, handles, dropping, panicking, aborted,
                    all_held >>

\* -------------------------------------------------------- Cleanup::drop
\* a scope end that leaves the guard with its owner
Without_keep(gs, k) == gs

\* the guards left once the one at position k has gone out of scope
Without(gs, k) == [ j \in 1..(Len(gs) - 1) |-> IF j < k THEN gs[j] ELSE gs[j + 1] ]

\* the guard at position k goes out of scope: self.prior_state.take();
\* with no prior state the drop is over at once
DropBegin(t, k) ==
    /\ ~aborted
    /\ pc[t] \in {"idle", "unwind"}
    /\ k \in 1..Len(guards[t])
    /\ LET newest == (k = Len(guards[t]))
           g == Taken(guards[t][k], [clean |-> run[t].clean /\ newest,
                                     lifo |-> run[t].lifo /\ newest,
                                     ok |-> run[t].ok])
           rest == Without(guards[t], k)
       IN /\ guards' = [guards EXCEPT ![t] = rest]
          /\ run' = [run EXCEPT ![t] =
                IF rest = << >> THEN FreshRun
                ELSE [clean |-> FALSE, lifo |-> @.lifo /\ newest, ok |-> @.ok]]
          /\ IF g.prior_state.some
             THEN /\ dropping' = [dropping EXCEPT ![t] = g]
                  /\ pc' = [pc EXCEPT ![t] = "drop_lock"]
                  /\ result' = [result EXCEPT ![t] = NoResult]
             ELSE /\ result' = [result EXCEPT ![t] =
                        [NoResult EXCEPT !.op = "drop", !.ret = "skipped",
                                         !.pre = g.pre,
                                         !.clean = g.clean, !.lifo = g.lifo,
                                         !.ok = g.ok]]
                  /\ UNCHANGED << dropping, pc >>
    /\ calls' = [calls EXCEPT ![t] = << >>]
    /\ UNCHANGED << core_count, cores_per_unit, query_ok, TOPOLOGY, lazy,
                    CORE_GROUPS, building, arg, scan, handles, cpubind, membind,
                    panicking, aborted, all_held >>

DropLock(t) ==
    /\ TopoLock(t, "drop_lock", "drop_body")
    /\ dropping' = IF TOPOLOGY.poisoned THEN [dropping EXCEPT ![t] = NoGuard]
                   ELSE dropping
    /\ UNCHANGED << run, core_count, cores_per_unit, query_ok, lazy, CORE_GROUPS,
                    building, arg, scan, handles, guards, cpubind, membind,
                    calls, all_held >>

\* a release that insists on both restoring calls
restore_outcome_strict(cpu_ok, mem_ok) ==
    IF cpu_ok /\ mem_ok THEN "unit" ELSE "panic"

\* what drop does with the answers of the two restoring calls: let _ = ...,
\* both are thrown away
restore_outcome(cpu_ok, mem_ok) == "unit"

\* the two restoring calls under the topology lock, results ignored
DropBody(t) ==
    /\ ~aborted
    /\ pc[t] = "drop_body"
    /\ \E cpu_ok, mem_ok \in BOOLEAN :
       LET g == dropping[t]
           prior == g.prior_state.set
           accepted == cpu_ok /\ mem_ok
           ret == restore_outcome(cpu_ok, mem_ok)
       IN /\ cpubind' = [cpubind EXCEPT ![g.tid] = IF cpu_ok THEN prior ELSE @]
          /\ membind' = [membind EXCEPT ![t] =
                IF mem_ok THEN set_membind(prior, MEMBIND_DEFAULT) ELSE @]
          /\ calls' = [calls EXCEPT ![t] =
                << Call("set_cpubind_for_thread", prior, cpu_ok),
                   Call("set_membind", prior, mem_ok) >>]
          /\ run' = [run EXCEPT ![t] =
                IF guards[t] = << >> THEN @ ELSE [@ EXCEPT !.ok = @ /\ accepted]]
          /\ result' = [result EXCEPT ![t] =
                [NoResult EXCEPT !.op = "drop",
                                 !.ret = IF ret = "unit" THEN "restored" ELSE ret,
                                 !.pre = g.pre,
                                 !.state = g.prior_state,
                                 !.clean = g.clean, !.lifo = g.lifo,
                                 !.ok = g.ok /\ accepted]]
          /\ IF ret = "unit"
             THEN /\ pc' = [pc EXCEPT ![t] = Rest(t)]
                  /\ TOPOLOGY' = [TOPOLOGY EXCEPT !.locked = FALSE]
                  /\ UNCHANGED << panicking, aborted >>
             ELSE /\ PanicOf(t)
                  /\ TOPOLOGY' = [locked |-> FALSE, poisoned |-> TRUE]
    /\ dropping' = [dropping EXCEPT ![t] = NoGuard]
    /\ UNCHANGED << core_count, cores_per_unit, query_ok, lazy, CORE_GROUPS,
                    building, arg, scan, handles, guards, all_held >>

\* ----------------------------------------------------------------- Next
\* the pool: what a thread does with checkout_core_group and its handles
PoolStep(t) ==
    \/ CheckoutBegin(t)
    \/ Deref(t)
    \/ CgLock(t)
    \/ CgQuery(t)
    \/ CgStep(t)
    \/ CgDone(t)
    \/ CoProbe(t)
    \/ CoNone(t)
    \/ \E g \in 1..Len(CORE_GROUPS) : ReleaseHandle(t, g)

\* the core indexes tried: the first core, the last one, and the first
\* index out of range
BindIndexes == { i \in {0, core_count - 1, core_count} : i >= 0 }

\* binding: what a thread does with bind_core and its guards
BindStep(t) ==
    \/ \E i \in BindIndexes : BindBegin(t, i)
    \/ BindLock(t)
    \/ BindBody(t)
    \/ \E k \in 1..MaxGuards : DropBegin(t, k)
    \/ DropLock(t)
    \/ DropBody(t)

\* the whole program: every thread may do everything
Next == \E t \in Threads : PoolStep(t) \/ BindStep(t) \/ Panic(t)
Spec == Init /\ [][Next]_vars

\* the threads sharing the pool and panicking, none of them binding
InitPool == InitWith(0..MaxCores, 1..MaxUnit, {})
NextPool == \E t \in Threads : PoolStep(t) \/ Panic(t)
SpecPool == InitPool /\ [][NextPool]_vars

\* one thread using the pool and binding, nested binds included, no panic
InitBind == InitWith(0..MaxCores, {MaxUnit}, {1})
NextBind == \E t \in {1} : PoolStep(t) \/ BindStep(t)
SpecBind == InitBind /\ [][NextBind]_vars

\* one thread binding and releasing its guards, also while it unwinds
InitGuard == InitWith(0..MaxCores, {MaxUnit}, {1})
NextGuard == \E t \in {1} : BindStep(t) \/ Panic(t)
SpecGuard == InitGuard /\ [][NextGuard]_vars

\* two threads sharing the pool, the second one also binding, with at most
\* MaxShareGuards guards at a time
InitShare == InitWith(0..MaxCores, {MaxUnit}, {})
ShareBind(t) ==
    \/ Len(guards[t]) < MaxShareGuards /\ \E i \in BindIndexes : BindBegin(t, i)
    \/ BindLock(t)
    \/ BindBody(t)
    \/ \E k \in 1..MaxShareGuards : DropBegin(t, k)
    \/ DropLock(t)
    \/ DropBody(t)
NextShare == (\E t \in {1} : PoolStep(t)) \/ (\E t \in {2} : PoolStep(t) \/ ShareBind(t))
SpecShare == InitShare /\ [][NextShare]_vars

\* one thread using the pool, and panicking, while another binds, on the
\* largest machine
InitFrame == InitWith({MaxCores}, 1..MaxUnit, {})
NextFrame == (\E t \in {1} : PoolStep(t) \/ Panic(t)) \/ (\E t \in {2} : ShareBind(t))
SpecFrame == InitFrame /\ [][NextFrame]_vars

\* two threads doing everything but panic on a platform that accepts every
\* call, under fair scheduling: a thread inside an operation goes on, and
\* a thread at a lock() that is free again and again gets the lock
Accepted(t) == \A i \in 1..Len(calls'[t]) : calls'[t][i].ok
Advance(t) ==
    \/ Deref(t)
    \/ CgQuery(t)
    \/ CgStep(t)
    \/ CgDone(t)
    \/ CoProbe(t)
    \/ CoNone(t)
    \/ BindBody(t)
    \/ DropBody(t)
Fairness ==
    \A t \in Threads :
        /\ WF_vars(Advance(t))
        /\ SF_vars(CgLock(t))
        /\ SF_vars(BindLock(t))
        /\ SF_vars(DropLock(t))
NextLive == \E t \in {1, 2} : PoolStep(t) \/ (ShareBind(t) /\ Accepted(t))
SpecLive == InitShare /\ [][NextLive]_vars /\ Fairness

\* the construction of the pool alone, over many machines and settings
InitPart == InitWith(0..MaxPartCores, 1..MaxPartUnit, {})
NextPart ==
    \E t \in {1} :
        \/ CheckoutBegin(t)
        \/ Deref(t)
        \/ CgLock(t)
        \/ CgQuery(t)
        \/ CgStep(t)
        \/ CgDone(t)
SpecPart == InitPart /\ [][NextPart]_vars

\* =================================================================
\* Properties
\* =================================================================
RECURSIVE HeldBy(_, _)
\* the handles of group g owned by the threads 1..n
HeldBy(g, n) == IF n = 0 THEN 0 ELSE handles[n][g] + HeldBy(g, n - 1)

RECURSIVE HeldUpTo(_)
\* the handles of the groups 1..g
HeldUpTo(g) == IF g = 0 THEN 0 ELSE HeldBy(g, NumThreads) + HeldUpTo(g - 1)

Outstanding == HeldUpTo(Len(CORE_GROUPS))

\* C1: mutual exclusion of core groups.  In every reachable state each group
\* has at most one live checkout handle, over all threads together, a group
\* with a live handle is locked, and the number of live handles never
\* exceeds the number of groups.
C1_MutualExclusion ==
    /\ \A g \in 1..Len(CORE_GROUPS) :
          /\ HeldBy(g, NumThreads) <= 1
          /\ HeldBy(g, NumThreads) = 1 => CORE_GROUPS[g].locked
    /\ Outstanding <= Len(CORE_GROUPS)
    /\ lazy = "ready" => Len(CORE_GROUPS) = group_count_of(core_count, cores_per_unit)

\* two threads hold a handle at the same time, on different groups
C1_Witness ==
    \E t, u \in Threads : \E g, h \in 1..Len(CORE_GROUPS) :
        /\ t # u
        /\ g # h
        /\ handles[t][g] = 1
        /\ handles[u][h] = 1

\* C2: a checkout_core_group call during which every group was held all the
\* time (no handle was released between the start of its scan and its
\* return) returns None, and the caller owns no more handles than before.
C2_AllHeldGivesNone ==
    \A t \in Threads :
        /\ (pc[t] = "co_scan" /\ all_held[t]) => AllHeld
        /\ (result[t].op = "checkout" /\ result[t].flag) => result[t].ret = "None"

\* a third checkout on a two-group pool with both groups held came back None
C2_Witness ==
    \E t \in Threads :
        /\ Len(CORE_GROUPS) = 2
        /\ AllHeld
        /\ Outstanding = 2
        /\ result[t].op = "checkout"
        /\ result[t].flag
        /\ result[t].ret = "None"

\* C3: implicit release.  Whenever a handle goes out of scope (by return or
\* by unwinding) the group's lock is released, and a checkout that probes a
\* group no handle holds acquires that group.
C3_ReleasedGroupIsEligible ==
    [][ \A t \in Threads :
          /\ \A g \in 1..Len(CORE_GROUPS) :
                (handles'[t][g] < handles[t][g]) => ~CORE_GROUPS'[g].locked
          /\ ( /\ pc[t] = "co_scan"
               /\ scan[t] <= Len(CORE_GROUPS)
               /\ scan'[t] # scan[t]
               /\ HeldBy(scan[t], NumThreads) = 0 )
             => handles'[t][scan[t]] = handles[t][scan[t]] + 1
      ]_vars

InRange(idx) == query_ok /\ idx < core_count

\* C4: bind/release round trip.  When a guard is released with no other bind
\* or release on the thread since its bind_core, the thread's CPU binding
\* and memory binding equal those it had when bind_core was called.  Stated
\* for the runs most favourable to the claim: the platform accepted every
\* call of the bind and of the release, so the snapshot was captured and
\* both restoring calls took effect.
C4_RoundTrip ==
    \A t \in Threads :
        (result[t].op = "drop" /\ result[t].clean /\ result[t].ok)
            => /\ cpubind[t] = result[t].pre.cpu
               /\ membind[t] = result[t].pre.mem

\* C5: nested binds released newest first.  When the outer guard of
\* bind_core(a), bind_core(b), release b, release a is released, the thread's
\* affinity equals the one before bind_core(a), and what the guard had
\* captured is exactly that affinity's CPU binding.  Again for the runs in
\* which the platform accepted every call.
C5_NestedRoundTrip ==
    \A t \in Threads :
        (result[t].op = "drop" /\ result[t].lifo /\ ~result[t].clean /\ result[t].ok)
            => /\ result[t].state = Some(result[t].pre.cpu)
               /\ cpubind[t] = result[t].pre.cpu
               /\ membind[t] = result[t].pre.mem

\* C6: bind_core with an index that is not below the discovered core count
\* returns the out-of-range error, creates no guard and captures no state,
\* makes no platform call, changes no thread's CPU or memory binding and no
\* group's lock, and leaves the topology lock free and healthy.
C6_OutOfRangeBind ==
    [][ \A t \in Threads :
          ( /\ pc[t] = "bind_body"
            /\ pc'[t] # "bind_body"
            /\ query_ok
            /\ arg[t] >= core_count )
          => /\ result'[t].op = "bind"
             /\ result'[t].ret = "Err: idx out of range"
             /\ result'[t].state = None
             /\ guards' = guards
             /\ calls'[t] = << >>
             /\ cpubind' = cpubind
             /\ membind' = membind
             /\ CORE_GROUPS' = CORE_GROUPS
             /\ handles' = handles
             /\ TOPOLOGY' = [locked |-> FALSE, poisoned |-> FALSE]
      ]_vars

\* an out-of-range bind has failed while a group is checked out
C6_Witness ==
    \E t \in Threads :
        /\ result[t].op = "bind"
        /\ result[t].ret = "Err: idx out of range"
        /\ core_count > 0
        /\ \E g \in 1..Len(CORE_GROUPS) : CORE_GROUPS[g].locked
        /\ ~TOPOLOGY.locked

Members(grp) == { grp[j] : j \in 1..Len(grp) }

\* the groups collected so far, and the finished pool's
GroupsSoFar == IF lazy = "ready" THEN [ k \in 1..Len(CORE_GROUPS) |-> CORE_GROUPS[k].data ]
               ELSE building

\* C7: partition result.  The finished pool has exactly core_count div
\* cores_per_unit groups (the largest n with n * cores_per_unit <=
\* core_count); its k-th group, k = 0 first, is the ascending run of
\* cores_per_unit indexes starting at (group_count - 1 - k) * cores_per_unit,
\* so the groups come in descending order and the core_count mod
\* cores_per_unit highest cores are in no group; while the pool is built,
\* the groups collected so far are the first ones of that list.  8 cores in
\* units of 3 give [3,4,5] then [0,1,2].
C7_PartitionResult ==
    LET n == Len(GroupsSoFar)
        size == cores_per_unit
        count == CHOOSE c \in 0..core_count :
                     c * size <= core_count /\ core_count < (c + 1) * size
    IN /\ n <= count
       /\ lazy = "ready" => n = count
       /\ \A k \in 0..(n - 1) :
             /\ Len(GroupsSoFar[k + 1]) = size
             /\ \A j \in 0..(size - 1) :
                   GroupsSoFar[k + 1][j + 1] = (count - 1 - k) * size + j
       /\ lazy = "ready" =>
             \A c \in (core_count - (core_count % size))..(core_count - 1) :
                 \A k \in 1..n : c \notin Members(GroupsSoFar[k])
       /\ (lazy = "ready" /\ core_count = 8 /\ size = 3) =>
             GroupsSoFar = << <<3, 4, 5>>, <<0, 1, 2>> >>

\* 8 cores in units of 3: two groups built, cores 6 and 7 left over
C7_Witness ==
    /\ lazy = "ready"
    /\ core_count = 8
    /\ cores_per_unit = 3
    /\ Len(CORE_GROUPS) = 2
    /\ CORE_GROUPS[1].data = <<3, 4, 5>>
    /\ CORE_GROUPS[2].data = <<0, 1, 2>>

\* C8: pool well-formedness.  The groups are pairwise disjoint, each has
\* exactly cores_per_unit distinct members, every member is a core index of
\* the machine, and the assertion inside core_groups never fails: when the
\* topology query answers, construction does not panic.
C8_WellFormedPool ==
    /\ \A k \in 1..Len(GroupsSoFar) :
          /\ Len(GroupsSoFar[k]) = cores_per_unit
          /\ Cardinality(Members(GroupsSoFar[k])) = cores_per_unit
          /\ Members(GroupsSoFar[k]) \subseteq 0..(core_count - 1)
          /\ \A h \in 1..Len(GroupsSoFar) :
                h # k => Members(GroupsSoFar[k]) \cap Members(GroupsSoFar[h]) = {}
    /\ query_ok => (lazy # "poisoned" /\ \A t \in Threads : ~panicking[t])

\* a pool of several groups on a machine with leftover cores
C8_Witness ==
    /\ lazy = "ready"
    /\ Len(CORE_GROUPS) >= 2
    /\ cores_per_unit >= 2
    /\ core_count % cores_per_unit # 0

\* C9: empty pool.  With fewer cores than cores_per_unit the construction
\* completes with zero groups, and every checkout_core_group call, of any
\* thread, returns None.
C9_EmptyPool ==
    core_count < cores_per_unit =>
        /\ Len(CORE_GROUPS) = 0
        /\ Len(building) = 0
        /\ query_ok => lazy # "poisoned"
        /\ \A t \in Threads :
              /\ result[t].op = "checkout" => result[t].ret = "None"
              /\ handles[t] = << >>

\* on a one-core machine with units of two, the pool was built empty and
\* two threads have both been told None
C9_Witness ==
    /\ core_count = 1
    /\ cores_per_unit = 2
    /\ lazy = "ready"
    /\ Len(CORE_GROUPS) = 0
    /\ \A t \in {1, 2} : result[t].op = "checkout" /\ result[t].ret = "None"

\* ------------------------------------------------------------------
\* the guards gs but the one at position k
DropAt(gs, k) == [ j \in 1..(Len(gs) - 1) |-> IF j < k THEN gs[j] ELSE gs[j + 1] ]

\* the step is the end of the scope of the guard at position k of thread t
ScopeEnd(t, k) ==
    /\ pc[t] \in {"idle", "unwind"}
    /\ k \in 1..Len(guards[t])
    /\ guards'[t] = DropAt(guards[t], k)

\* the two restoring calls of a drop, in the order they are made
IsRestore(log, prior) ==
    /\ Len(log) = 2
    /\ log[1].call = "set_cpubind_for_thread" /\ log[1].set = prior
    /\ log[2].call = "set_membind" /\ log[2].set = prior

\* C11: a guard whose scope ends, on a normal return or while its thread
\* unwinds, is consumed; when it holds a captured state the release takes
\* the topology lock and makes exactly the two restoring calls with that
\* state, the CPU binding first and the memory binding second, for the
\* thread that bound, and then is over; when it holds none the release
\* makes no call and changes no binding; binding calls are made by
\* bind_core and by a release only.
C11_RestoreOnce ==
    [][\A t \in Threads :
         /\ \A k \in 1..Len(guards[t]) :
              ScopeEnd(t, k) =>
                 IF guards[t][k].prior_state.some
                 THEN /\ pc'[t] = "drop_lock"
                      /\ dropping'[t].prior_state = guards[t][k].prior_state
                      /\ dropping'[t].tid = guards[t][k].tid
                      /\ calls'[t] = << >>
                      /\ cpubind' = cpubind /\ membind' = membind
                 ELSE /\ pc'[t] = pc[t]
                      /\ result'[t].op = "drop" /\ result'[t].ret = "skipped"
                      /\ calls'[t] = << >>
                      /\ cpubind' = cpubind /\ membind' = membind
         /\ (pc[t] # "drop_lock" /\ pc'[t] = "drop_lock") =>
                 Len(guards'[t]) = Len(guards[t]) - 1
         /\ (result'[t] # result[t] /\ result'[t].op = "drop"
                                    /\ result'[t].ret = "skipped") =>
                 Len(guards'[t]) = Len(guards[t]) - 1
         /\ (pc[t] = "drop_lock" /\ pc'[t] # "drop_lock") =>
                 /\ pc'[t] = "drop_body"
                 /\ dropping'[t] = dropping[t]
                 /\ calls'[t] = << >>
                 /\ cpubind' = cpubind /\ membind' = membind
         /\ (pc[t] = "drop_body" /\ pc'[t] # "drop_body") =>
                 /\ dropping[t].prior_state.some
                 /\ IsRestore(calls'[t], dropping[t].prior_state.set)
                 /\ calls'[t][1].ok => cpubind'[dropping[t].tid] = dropping[t].prior_state.set
                 /\ dropping'[t] = NoGuard
                 /\ guards'[t] = guards[t]
                 /\ pc'[t] = Rest(t)
         /\ (calls'[t] # calls[t] /\ calls'[t] # << >>) =>
                 pc[t] \in {"bind_body", "drop_body"}
         /\ (cpubind'[t] # cpubind[t] \/ membind'[t] # membind[t]) =>
                 pc[t] \in {"bind_body", "drop_body"}
    ]_vars

\* a release finished on a thread that is unwinding, its state restored
C11_Witness ==
    \E t \in Threads :
        /\ panicking[t]
        /\ pc[t] = "unwind"
        /\ result[t].op = "drop" /\ result[t].ret = "restored"
        /\ IsRestore(calls[t], result[t].state.set)
        /\ calls[t][1].ok /\ calls[t][2].ok

\* ------------------------------------------------------------------
\* C12: a release whose CPU restore or memory restore the platform rejects
\* still ends normally: the thread goes on where the scope ended (idle, or
\* unwinding when it was unwinding already), no panic starts, the process
\* is not aborted, the topology lock is given back unpoisoned, and a
\* rejected call leaves the binding it was to restore as it is.
C12_SilentRelease ==
    [][\A t \in Threads :
         (pc[t] = "drop_body" /\ pc'[t] # "drop_body") =>
            /\ pc'[t] = Rest(t)
            /\ panicking' = panicking
            /\ aborted' = aborted
            /\ result'[t].op = "drop" /\ result'[t].ret = "restored"
            /\ TOPOLOGY' = [TOPOLOGY EXCEPT !.locked = FALSE]
            /\ Len(calls'[t]) = 2
            /\ ~calls'[t][1].ok => cpubind' = cpubind
            /\ ~calls'[t][2].ok => membind' = membind
    ]_vars

\* a release over, both of its restoring calls rejected, its thread idle
C12_Witness ==
    \E t \in Threads :
        /\ pc[t] = "idle" /\ ~panicking[t] /\ ~aborted
        /\ result[t].op = "drop" /\ result[t].ret = "restored"
        /\ Len(calls[t]) = 2
        /\ ~calls[t][1].ok /\ ~calls[t][2].ok
        /\ cpubind[t] # result[t].state.set

\* ------------------------------------------------------------------
\* the steps of the scan of checkout_core_group
ScanStep(t) == CoProbe(t) \/ CoNone(t)

\* C13 as stated: a thread inside checkout_core_group never waits for a
\* lock that another thread holds: in the scan its next step can always be
\* taken, and when it builds the pool it can always take the topology lock.
C13_NeverWaits ==
    \A t \in Threads :
        ~aborted =>
            /\ pc[t] = "co_scan" => ENABLED ScanStep(t)
            /\ pc[t] = "cg_lock" => ENABLED CgLock(t)

\* C13 amended, the scan: once the pool is built a call never waits; its
\* next step, be it the dereference of the built pool, a probe, or the
\* return of None, can always be taken, whatever the other threads hold.
C13_ScanNeverWaits ==
    \A t \in Threads :
        ~aborted =>
            /\ (pc[t] = "co_deref" /\ lazy = "ready") => ENABLED Deref(t)
            /\ pc[t] = "co_scan" =>
                  /\ scan[t] \in 1..(Len(CORE_GROUPS) + 1)
                  /\ ENABLED ScanStep(t)

\* C13 amended, the probes: a step of the scan either returns or moves on
\* to the next group, so no group is probed twice
C13_ProbesOnce ==
    [][\A t \in Threads :
         (pc[t] = "co_scan" /\ scan'[t] # scan[t]) =>
            \/ pc'[t] = "idle" /\ result'[t].op = "checkout"
            \/ pc'[t] = "co_scan" /\ scan'[t] = scan[t] + 1
    ]_vars

\* C13 amended: only the call that builds the pool (and a call that comes
\* while the pool is being built) may wait; every other call is one pass
\* of probes that wait for nothing.
C13_OnePass == []C13_ScanNeverWaits /\ C13_ProbesOnce

\* a call has probed the first group, held by the other thread, and is at
\* the second one
C13_Witness ==
    \E t, u \in Threads :
        /\ t # u
        /\ pc[t] = "co_scan" /\ scan[t] = 2
        /\ Len(CORE_GROUPS) >= 1
        /\ handles[u][1] > 0

\* ------------------------------------------------------------------
\* thread t is at a lock() of the topology lock, or at the dereference of
\* the pool that leads to one
AtTopoLock(t) == pc[t] \in {"co_deref", "cg_lock", "bind_lock", "drop_lock"}

\* thread t holds the topology lock
InsideTopo(t) == pc[t] \in {"cg_query", "cg_build", "bind_body", "drop_body"}

\* C14: the topology lock, once poisoned, stays poisoned, and from then on
\* every step a thread takes at a lock() of it, in bind_core, in a guard
\* release or in the construction of the pool, is a panic: the thread
\* unwinds, and the step makes no platform call, changes no binding, no
\* guard and no group, and leaves the lock as it is; no thread is ever
\* inside the lock again.
C14_PoisonIsFatal ==
    [][TOPOLOGY.poisoned =>
         /\ TOPOLOGY'.poisoned
         /\ \A t \in Threads :
              /\ ~InsideTopo(t)'
              /\ (AtTopoLock(t) /\ pc'[t] # pc[t]) =>
                    /\ pc'[t] = "unwind"
                    /\ panicking'[t]
                    /\ TOPOLOGY' = TOPOLOGY
                    /\ calls' = calls
                    /\ cpubind' = cpubind /\ membind' = membind
                    /\ guards' = guards
                    /\ CORE_GROUPS' = CORE_GROUPS /\ building' = building
    ]_vars

\* bind_core has panicked at the poisoned topology lock
C14_Witness ==
    \E t \in Threads :
        /\ TOPOLOGY.poisoned
        /\ panicking[t] /\ pc[t] = "unwind"
        /\ result[t].ret = "panic"
        /\ guards[t] = << >>

\* ------------------------------------------------------------------
\* the groups stand in the order they were built in, the highest core
\* indices first
HighestFirst ==
    \A g, h \in 1..Len(CORE_GROUPS) :
        g < h => \A i \in Members(CORE_GROUPS[g].data), j \in Members(CORE_GROUPS[h].data) : i > j

\* C15: the scan goes through the groups in construction order, highest
\* core indices first; the call returns the group it is probing exactly
\* when that group is free at that moment, and every group it passes over
\* is held by some thread when it is probed; so the group returned is the
\* first one found free, and with no other thread active the earliest
\* built free group.
C15_ScanOrder ==
    [][\A t \in Threads :
         (pc[t] = "co_scan" /\ scan[t] <= Len(CORE_GROUPS) /\ scan'[t] # scan[t]) =>
            LET g == scan[t]
            IN /\ HighestFirst
               /\ IF CORE_GROUPS[g].locked
                  THEN /\ HeldBy(g, NumThreads) = 1
                       /\ pc'[t] = "co_scan" /\ scan'[t] = g + 1
                  ELSE /\ pc'[t] = "idle"
                       /\ result'[t].op = "checkout" /\ result'[t].ret = "Some"
                       /\ result'[t].grp = g
                       /\ handles'[t][g] = 1
    ]_vars

\* ------------------------------------------------------------------
\* the core indices of the groups of the pool, in order
Membership == [ g \in 1..Len(CORE_GROUPS) |-> CORE_GROUPS[g].data ]

\* C16: once the pool is built it stays built, and no step of a checkout,
\* a handle release, a bind_core or a guard release changes how many
\* groups there are, their order, or the core indices of a group.
C16_MembershipImmutable ==
    [][lazy = "ready" => (lazy' = "ready" /\ Membership' = Membership)]_vars

\* two groups; the first was checked out and released again, the second
\* is held, and the other thread has bound itself
C16_Witness ==
    /\ lazy = "ready"
    /\ Len(CORE_GROUPS) = 2
    /\ \E t, u \in Threads :
          /\ result[t].op = "release" /\ result[t].grp = 1
          /\ handles[t][2] = 1
          /\ ~CORE_GROUPS[1].locked /\ CORE_GROUPS[2].locked
          /\ guards[u] # << >>
          /\ result[u].op = "bind" /\ result[u].ret = "Ok"

\* ------------------------------------------------------------------
\* the step is one of thread t inside bind_core or a guard release
BindOrDropStep(t) ==
    \/ pc[t] \in {"bind_lock", "bind_body", "drop_lock", "drop_body"} /\ pc'[t] # pc[t]
    \/ pc[t] \in {"idle", "unwind"} /\ pc'[t] \in {"bind_lock", "drop_lock"}
    \/ guards'[t] # guards[t]

\* the step is one of thread t inside checkout_core_group, or the release
\* of one of its handles
PoolOpStep(t) ==
    \/ pc[t] = "idle" /\ pc'[t] = "co_deref"
    \/ /\ pc[t] \in {"co_deref", "cg_lock", "cg_query", "cg_build", "co_scan"}
       /\ (pc'[t] # pc[t] \/ scan'[t] # scan[t] \/ building' # building)
    \/ handles'[t] # handles[t]

\* C17: a step of bind_core or of a guard release changes no group lock
\* and no handle; a step of checkout_core_group or of a handle release
\* changes no thread's CPU or memory binding and no guard.
C17_Independent ==
    [][\A t \in Threads :
         /\ BindOrDropStep(t) =>
               /\ CORE_GROUPS' = CORE_GROUPS
               /\ handles' = handles
         /\ PoolOpStep(t) =>
               /\ cpubind' = cpubind /\ membind' = membind
               /\ guards' = guards /\ dropping' = dropping
    ]_vars

\* a thread holding a group has bound itself and released the guard, and
\* holds the group still
C17_Witness ==
    \E t \in Threads : \E g \in 1..Len(CORE_GROUPS) :
        /\ handles[t][g] = 1 /\ CORE_GROUPS[g].locked
        /\ guards[t] = << >>
        /\ result[t].op = "drop" /\ result[t].ret = "restored"
        /\ calls[t][1].ok

\* ------------------------------------------------------------------
\* thread t is inside an operation
Busy(t) == pc[t] \notin {"idle", "unwind"}

SomePanic == \E t \in Threads : panicking[t]

\* at most one thread is inside the topology lock, and the lock is held
\* exactly while a thread is inside the construction of the pool, the body
\* of bind_core or the restoring part of a guard release
Serialised ==
    /\ \A t, u \in Threads : (InsideTopo(t) /\ InsideTopo(u)) => t = u
    /\ TOPOLOGY.locked <=> \E t \in Threads : InsideTopo(t)

Lost == { g \in 1..Len(CORE_GROUPS) : CORE_GROUPS[g].poisoned }

\* C19: a handle released by a panicking thread poisons the lock of its
\* group; a poisoned group stays poisoned, the scan passes it over as it
\* passes a held one, no checkout returns it, and so the handles out at
\* any time are no more than the groups that are not lost.
C19_PoisonedGroupIsLost ==
    [][/\ \A t \in Threads : \A g \in 1..Len(CORE_GROUPS) :
            /\ (panicking[t] /\ handles'[t][g] < handles[t][g]) =>
                   /\ g \in Lost'
                   /\ ~CORE_GROUPS'[g].locked
            /\ (g \in Lost /\ pc[t] = "co_scan" /\ scan[t] = g /\ scan'[t] # g) =>
                   /\ pc'[t] = "co_scan" /\ scan'[t] = g + 1
                   /\ handles' = handles
            /\ (result'[t] # result[t] /\ result'[t].op = "checkout"
                   /\ result'[t].ret = "Some" /\ result'[t].grp = g) =>
                   g \notin Lost
       /\ lazy = "ready" =>
            /\ Lost \subseteq Lost'
            /\ \A g \in Lost : HeldBy(g, NumThreads) = 0 /\ ~CORE_GROUPS[g].locked
            /\ Outstanding + Cardinality(Lost) <= Len(CORE_GROUPS)
    ]_vars

\* every group is lost or held, no thread holds a lost one, and a thread
\* that asked for a group got None
C19_Witness ==
    /\ Lost # {}
    /\ \E t \in Threads :
          /\ ~panicking[t]
          /\ pc[t] = "idle"
          /\ result[t].op = "checkout" /\ result[t].ret = "None"
          /\ \A g \in Lost : ~CORE_GROUPS[g].locked
          /\ Outstanding = Len(CORE_GROUPS) - Cardinality(Lost)

\* ------------------------------------------------------------------
\* C20: a guard may be released while a newer one of the same thread is
\* still alive: the release is carried out like any other and nothing
\* panics; and when a thread has released its last guard after a release
\* out of order, the platform having accepted every call, its CPU binding
\* is the state that last guard captured, which is the binding the thread
\* had when that guard was asked for (the one an earlier bind_core had
\* applied), whatever the thread's affinity was before its first guard.
C20_ReleaseOrder ==
    [][\A t \in Threads :
         /\ \A k \in 1..(Len(guards[t]) - 1) :
              ScopeEnd(t, k) =>
                 /\ panicking' = panicking /\ aborted' = aborted
                 /\ \/ pc'[t] = "drop_lock"
                    \/ result'[t].op = "drop" /\ result'[t].ret = "skipped"
         /\ (pc[t] = "drop_body" /\ pc'[t] # "drop_body"
               /\ guards[t] = << >> /\ ~result'[t].lifo /\ result'[t].ok) =>
                 /\ result'[t].op = "drop" /\ result'[t].ret = "restored"
                 /\ result'[t].state = Some(result'[t].pre.cpu)
                 /\ cpubind'[t] = result'[t].pre.cpu
    ]_vars

\* a thread has released its guards out of order, and is left with a
\* binding to one processor that it did not start with
C20_Witness ==
    \E t \in Threads :
        /\ pc[t] = "idle" /\ ~panicking[t]
        /\ guards[t] = << >>
        /\ result[t].op = "drop" /\ result[t].ret = "restored"
        /\ ~result[t].lifo /\ result[t].ok
        /\ cpubind[t] = result[t].state.set
        /\ cpubind[t] \notin InitialCpuBinds(core_count)
        /\ \E i \in 0..(core_count - 1) : cpubind[t] = singlify(allowed_cpuset(i))

====
